---- MODULE Spec2Model ----
(***************************************************************************)
(* Model of GPT-4-Vision-Captioner: main (src/index.js), the batch         *)
(* pipeline processBatchImages (src/api/batchApi.js, first definition)     *)
(* and the synchronous pipeline processImagesSynchronously (src/index.js). *)
(*                                                                         *)
(* File sizes are whole numbers of MiB.  The code compares                 *)
(*   currentBatchSize + fileSize * 1.33 > 180 * 1024 * 1024                *)
(* in bytes; dividing both sides by 2^20 and multiplying by 100 gives the  *)
(* integer comparison  sum(size * 133) > 180 * 100  used here.             *)
(***************************************************************************)
EXTENDS Integers, Sequences, FiniteSets, TLC

\* ---------------------------------------------------------------- bounds
MaxImages == 3
MaxPolls == 1
FileSizes == {50, 150}
MaxLen == 3

\* ------------------------------------------------------ program constants
MAX_BATCH_SIZE_MIB == 180
ENCODE_FACTOR_PCT == 133
SYNC_RETRIES == 3
RATE_LIMIT_PER_MINUTE == 100000
POLL_INTERVAL_MS == 30000

\* INTERVAL_BETWEEN_CALLS = 60000 / RATE_LIMIT_PER_MINUTE ms, in microseconds
INTERVAL_BETWEEN_CALLS_US == (60000 * 1000) \div RATE_LIMIT_PER_MINUTE

\* budget in hundredths of a MiB
ScaledBudget == MAX_BATCH_SIZE_MIB * 100

VARIABLES
  pc,               \* position of the single thread of control
  mode,             \* "none" | "batch" | "sync": pipeline started by main
  imagePaths,       \* pathToImagesList: sequence of paths (directory order)
  fileSize,         \* path -> size in MiB (fs.statSync(p).size)
  batches,          \* planned chunks
  currentBatch,     \* chunk being filled by the planning pass
  currentBatchSize, \* its estimated size, hundredths of MiB
  planIdx,          \* position of the planning for-of loop (1-based)
  batchIndex,       \* index of the chunk being processed (0-based as in code)
  manifest,         \* custom ids written to the current chunk's JSONL file
  batchStatus,      \* last value returned by checkBatchStatus
  polls,            \* number of 30 s waits done so far (capped by MaxPolls)
  results,          \* records returned by downloadBatchResults
  resIdx,           \* position of the result for-of loop (1-based)
  syncI,            \* i of processImagesSynchronously (0-based)
  attempt,          \* attempt of attemptQueryWithRetry
  events,           \* log of API calls, captioning attempts and waits, in order
  written,          \* successful fs.writeFileSync calls, in order
  errorLog,         \* console.error lines about single items, in order
  runError,         \* the error thrown out of the pipeline into main's catch
  encoded,          \* image -> result of the latest encodeImage calls
  fx,               \* state of the function-level specifications (idle in Spec)
  answers,          \* the answers given to main's questions
  tryOutcome        \* what the latest try block of attemptQueryWithRetry did

vars == << pc, mode, imagePaths, fileSize, batches, currentBatch,
           currentBatchSize, planIdx, batchIndex, manifest, batchStatus,
           polls, results, resIdx, syncI, attempt, events, written,
           errorLog, runError, encoded, fx, answers, tryOutcome >>

\* ----------------------------------------------------------------- helpers
Statuses == {"validating", "in_progress", "finalizing", "completed",
             "failed", "expired", "cancelling", "cancelled"}

NoStatus == [status |-> "none", error_file_id |-> FALSE, output_file_id |-> 0]
NoError == [kind |-> "none", chunk |-> 0]
NoFx == [op |-> "idle"]
NoAnswers == [continueOverwrite |-> FALSE, useBatchProcessing |-> FALSE,
              costConfirmation |-> FALSE]

\* encodeImage returns the base64 text, or null when the read throws; the
\* callers test it with !base64Image, which is also true for "" (empty file)
EncodeResults == {"falsy", "data"}

\* the images whose encoding passes the test  if (!base64Image) continue
Truthy(enc) == {p \in DOMAIN enc : enc[p] = "data"}

RECURSIVE Flatten(_)
Flatten(ss) == IF ss = << >> THEN << >> ELSE Head(ss) \o Flatten(Tail(ss))

Range(s) == {s[i] : i \in DOMAIN s}

\* variant: the raw file size, without the base64 overhead
EstimatedEncodedSize_NoOverhead(size) == size * 100

\* const estimatedEncodedSize = fileSize * 1.33   (in hundredths of MiB)
EstimatedEncodedSize(size) == size * ENCODE_FACTOR_PCT

\* one logged call: op on chunk/item k, attempt a (0 in the batch pipeline),
\* ok = the call returned normally
Ev(op, k, a, ok) == [op |-> op, k |-> k, a |-> a, ok |-> ok]

\* one logged wait of ms time units before call a on chunk/item k
Pause(op, k, a, ms) == [op |-> op, k |-> k, a |-> a, ok |-> TRUE, ms |-> ms]

\* variant: the delay grows with the attempt number
RetryDelay_Backoff(att) == INTERVAL_BETWEEN_CALLS_US * att

\* await delay(INTERVAL_BETWEEN_CALLS) before attempt att of an item
RetryDelay(att) == INTERVAL_BETWEEN_CALLS_US

\* ------------------------------------------------------------------- Init
Init ==
  /\ pc = "main"
  /\ mode = "none"
  /\ \E n \in 0 .. MaxImages :
       /\ imagePaths = [i \in 1 .. n |-> i]
       /\ fileSize \in [1 .. n -> FileSizes]
  /\ batches = << >>
  /\ currentBatch = << >>
  /\ currentBatchSize = 0
  /\ planIdx = 1
  /\ batchIndex = 0
  /\ manifest = << >>
  /\ batchStatus = NoStatus
  /\ polls = 0
  /\ results = << >>
  /\ resIdx = 1
  /\ syncI = 0
  /\ attempt = 1
  /\ events = << >>
  /\ written = << >>
  /\ errorLog = << >>
  /\ runError = NoError
  /\ encoded = << >>
  /\ fx = NoFx
  /\ answers = NoAnswers
  /\ tryOutcome = "none"

\* ------------------------------------------------------------------- main
\* variant: the cost agreement is asked but its answer is not tested
Proceeds_IgnoresCost(continueOverwrite, costConfirmation) == continueOverwrite

\* if (!continueOverwrite) return;  ...  if (!costConfirmation) return;
Proceeds(continueOverwrite, costConfirmation) == continueOverwrite /\ costConfirmation

\* main(): the checks, the questions, then exactly one pipeline call.
Main ==
  /\ pc = "main"
  /\ \E checksPass, continueOverwrite, useBatchProcessing, costConfirmation \in BOOLEAN :
       IF ~checksPass
         THEN /\ pc' = "aborted"
              /\ runError' = [kind |-> "precheck", chunk |-> 0]
              /\ mode' = mode
              /\ answers' = answers
         ELSE /\ answers' = [continueOverwrite |-> continueOverwrite,
                             useBatchProcessing |-> useBatchProcessing,
                             costConfirmation |-> costConfirmation]
              /\ IF ~Proceeds(continueOverwrite, costConfirmation)
                   THEN /\ pc' = "declined"
                        /\ UNCHANGED << runError, mode >>
                   ELSE /\ pc' = IF useBatchProcessing THEN "plan" ELSE "sync_loop"
                        /\ mode' = IF useBatchProcessing THEN "batch" ELSE "sync"
                        /\ UNCHANGED runError
  /\ UNCHANGED << encoded, fx, tryOutcome >>
  /\ UNCHANGED << imagePaths, fileSize, batches, currentBatch, currentBatchSize,
                  planIdx, batchIndex, manifest, batchStatus, polls, results,
                  resIdx, syncI, attempt, events, written, errorLog >>

\* ---------------------------------------------------------- planning pass
\* variant: a new chunk is started empty, the image that did not fit is lost
PlanStepBody_DropsItem(imagePath) ==
  LET estimatedEncodedSize == EstimatedEncodedSize(fileSize[imagePath])
  IN  IF currentBatchSize + estimatedEncodedSize > ScaledBudget /\ Len(currentBatch) > 0
        THEN /\ batches' = Append(batches, currentBatch)
             /\ currentBatch' = << >>
             /\ currentBatchSize' = 0
        ELSE /\ batches' = batches
             /\ currentBatch' = Append(currentBatch, imagePath)
             /\ currentBatchSize' = currentBatchSize + estimatedEncodedSize

\* variant: the test for a non-empty current chunk is missing
PlanStepBody_NoEmptyTest(imagePath) ==
  LET estimatedEncodedSize == EstimatedEncodedSize(fileSize[imagePath])
  IN  IF currentBatchSize + estimatedEncodedSize > ScaledBudget
        THEN /\ batches' = Append(batches, currentBatch)
             /\ currentBatch' = << imagePath >>
             /\ currentBatchSize' = estimatedEncodedSize
        ELSE /\ batches' = batches
             /\ currentBatch' = Append(currentBatch, imagePath)
             /\ currentBatchSize' = currentBatchSize + estimatedEncodedSize

\* one iteration of  for (const imagePath of imagePaths)
PlanStepBody(imagePath) ==
  LET estimatedEncodedSize == EstimatedEncodedSize(fileSize[imagePath])
  IN  IF currentBatchSize + estimatedEncodedSize > ScaledBudget /\ Len(currentBatch) > 0
        THEN /\ batches' = Append(batches, currentBatch)
             /\ currentBatch' = << imagePath >>
             /\ currentBatchSize' = estimatedEncodedSize
        ELSE /\ batches' = batches
             /\ currentBatch' = Append(currentBatch, imagePath)
             /\ currentBatchSize' = currentBatchSize + estimatedEncodedSize

PlanStep ==
  /\ pc = "plan"
  /\ planIdx <= Len(imagePaths)
  /\ PlanStepBody(imagePaths[planIdx])
  /\ planIdx' = planIdx + 1
  /\ UNCHANGED << encoded, fx, answers, tryOutcome >>
  /\ UNCHANGED << pc, mode, imagePaths, fileSize, batchIndex, manifest,
                  batchStatus, polls, results, resIdx, syncI, attempt, events,
                  written, errorLog, runError >>

\* fs.statSync throws (file vanished): the error reaches main's catch
PlanStatFail ==
  /\ pc = "plan"
  /\ planIdx <= Len(imagePaths)
  /\ pc' = "aborted"
  /\ runError' = [kind |-> "stat", chunk |-> 0]
  /\ UNCHANGED << encoded, fx, answers, tryOutcome >>
  /\ UNCHANGED << mode, imagePaths, fileSize, batches, currentBatch,
                  currentBatchSize, planIdx, batchIndex, manifest, batchStatus,
                  polls, results, resIdx, syncI, attempt, events, written,
                  errorLog >>

\* loop condition of  for (batchIndex ...; batchIndex < batches.length; ...)
LoopPc(bi, bs) == IF bi < Len(bs) THEN "submit" ELSE "done"

\* variant: the last chunk is pushed even when it is empty
FinalPush_Always(bs, cb) == Append(bs, cb)

\* if (currentBatch.length > 0) { batches.push(currentBatch); }
FinalPush(bs, cb) == IF Len(cb) > 0 THEN Append(bs, cb) ELSE bs

\* the end of the planning pass, then the chunk loop
PlanFinish ==
  /\ pc = "plan"
  /\ planIdx > Len(imagePaths)
  /\ batches' = FinalPush(batches, currentBatch)
  /\ batchIndex' = 0
  /\ pc' = LoopPc(0, batches')
  /\ UNCHANGED << encoded, fx, answers, tryOutcome >>
  /\ UNCHANGED << mode, imagePaths, fileSize, currentBatch, currentBatchSize,
                  planIdx, manifest, batchStatus, polls, results, resIdx, syncI,
                  attempt, events, written, errorLog, runError >>

\* --------------------------------------------------------- batch pipeline
Chunk == batches[batchIndex + 1]

\* variant: the catch removes the output files of the run
MainCatch_RollsBack(files) == << >>

\* main's catch logs the error and returns: the written files stay
MainCatch(files) == files

\* a throw out of processBatchImages, caught by main
Abort(kind) ==
  /\ pc' = "aborted"
  /\ runError' = [kind |-> kind, chunk |-> batchIndex + 1]
  /\ written' = MainCatch(written)

\* variant: the request loop ends at the first image that fails to encode
ManifestOf_StopsAtFailure(chunk, encodable) ==
  LET bad == {i \in DOMAIN chunk : chunk[i] \notin encodable}
  IN  IF bad = {} THEN chunk
      ELSE SubSeq(chunk, 1, (CHOOSE i \in bad : \A j \in bad : i <= j) - 1)

\* the items of a chunk whose encodeImage result is truthy keep a request line
ManifestOf(chunk, encodable) == SelectSeq(chunk, LAMBDA p : p \in encodable)

\* createBatchInputFile: build the JSONL manifest, then uploadBatchFile
CreateBatchInputFile ==
  /\ pc = "submit"
  /\ \E enc \in [Range(Chunk) -> EncodeResults], ok \in BOOLEAN :
       /\ encoded' = enc
       /\ manifest' = ManifestOf(Chunk, Truthy(enc))
       /\ events' = Append(events, Ev("upload", batchIndex + 1, 0, ok))
       /\ IF ok
            THEN pc' = "create" /\ UNCHANGED << runError, written >>
            ELSE Abort("upload")
  /\ UNCHANGED << fx, answers, tryOutcome >>
  /\ UNCHANGED << mode, imagePaths, fileSize, batches, currentBatch,
                  currentBatchSize, planIdx, batchIndex, batchStatus, polls,
                  results, resIdx, syncI, attempt, errorLog >>

\* variant: a rejected job creation is tried again
CreateBatch_Retries ==
  /\ pc = "create"
  /\ \E ok \in BOOLEAN :
       /\ events' = Append(events, Ev("create", batchIndex + 1, 0, ok))
       /\ pc' = IF ok THEN "poll" ELSE "create"
       /\ UNCHANGED runError
  /\ UNCHANGED << encoded, fx, answers, tryOutcome >>
  /\ UNCHANGED << mode, imagePaths, fileSize, batches, currentBatch,
                  currentBatchSize, planIdx, batchIndex, manifest, batchStatus,
                  polls, results, resIdx, syncI, attempt, written, errorLog >>

\* createBatch
CreateBatch ==
  /\ pc = "create"
  /\ \E ok \in BOOLEAN :
       /\ events' = Append(events, Ev("create", batchIndex + 1, 0, ok))
       /\ IF ok
            THEN pc' = "poll" /\ UNCHANGED << runError, written >>
            ELSE Abort("create")
  /\ UNCHANGED << encoded, fx, answers, tryOutcome >>
  /\ UNCHANGED << mode, imagePaths, fileSize, batches, currentBatch,
                  currentBatchSize, planIdx, batchIndex, manifest, batchStatus,
                  polls, results, resIdx, syncI, attempt, errorLog >>

\* variant: the results of an expired job are downloaded
AfterPoll_DownloadsExpired(st) ==
  IF st.status = "failed"
    THEN IF st.error_file_id THEN "errors" ELSE "aborted"
    ELSE IF st.status \in {"completed", "expired"} THEN "download" ELSE "wait"

\* variant: a cancelled job ends the run like a failed one
AfterPoll_StopsOnCancelled(st) ==
  IF st.status \in {"failed", "expired", "cancelled"}
    THEN IF st.error_file_id THEN "errors" ELSE "aborted"
    ELSE IF st.status = "completed" THEN "download" ELSE "wait"

\* variant: the loop is left on any status that is not a failure
AfterPoll_NoWait(st) ==
  IF st.status = "failed" \/ st.status = "expired"
    THEN IF st.error_file_id THEN "errors" ELSE "aborted"
    ELSE "download"

\* variant: only "failed" is tested, an expired job is waited on
AfterPoll_IgnoresExpired(st) ==
  IF st.status = "failed"
    THEN IF st.error_file_id THEN "errors" ELSE "aborted"
    ELSE IF st.status = "completed" THEN "download" ELSE "wait"

\* where the do-while body goes after checkBatchStatus returned st
AfterPoll(st) ==
  IF st.status = "failed" \/ st.status = "expired"
    THEN IF st.error_file_id THEN "errors" ELSE "aborted"
    ELSE IF st.status = "completed" THEN "download" ELSE "wait"

\* the output file of a completed job: a fresh id per status read, named
\* after the position of the poll in the log; 0 stands for no output file
OutputFileId(s, pollNo) == IF s = "completed" THEN pollNo ELSE 0

\* one logged download of file id for chunk k
Fetch(op, k, ok, id) == [op |-> op, k |-> k, a |-> 0, ok |-> ok, file |-> id]

\* a job that is still running has produced no error file yet
ErrorFileIds(s) == IF s \in {"completed", "failed", "expired"} THEN BOOLEAN ELSE {FALSE}

\* batchStatus = await checkBatchStatus(apiKey, batchId) and the status tests
CheckBatchStatus ==
  /\ pc = "poll"
  /\ \/ /\ events' = Append(events, Ev("poll", batchIndex + 1, 0, FALSE))
        /\ Abort("status_check")
        /\ UNCHANGED batchStatus
     \/ \E s \in Statuses : \E efid \in ErrorFileIds(s) :
          LET st == [status |-> s, error_file_id |-> efid,
                     output_file_id |-> OutputFileId(s, Len(events) + 1)]
          IN  /\ events' = Append(events, Ev("poll", batchIndex + 1, 0, TRUE))
              /\ batchStatus' = st
              /\ pc' = AfterPoll(st)
              /\ runError' = IF AfterPoll(st) = "aborted"
                               THEN [kind |-> "batch_" \o s, chunk |-> batchIndex + 1]
                               ELSE runError
              /\ written' = IF AfterPoll(st) = "aborted"
                              THEN MainCatch(written)
                              ELSE written
  /\ UNCHANGED << encoded, fx, answers, tryOutcome >>
  /\ UNCHANGED << mode, imagePaths, fileSize, batches, currentBatch,
                  currentBatchSize, planIdx, batchIndex, manifest, polls,
                  results, resIdx, syncI, attempt, errorLog >>

\* the error lines a downloaded error file yields: one per record
ErrorLines(ids) == [i \in DOMAIN ids |-> [kind |-> "batch_error", id |-> ids[i]]]

\* variant: the download is not wrapped in try/catch, its error escapes
DownloadBatchErrors_Unprotected ==
  /\ pc = "errors"
  /\ \/ /\ events' = Append(events, Ev("download_errors", batchIndex + 1, 0, FALSE))
        /\ errorLog' = errorLog
        /\ Abort("error_download")
     \/ \E failed \in SUBSET Range(manifest) :
          /\ events' = Append(events, Ev("download_errors", batchIndex + 1, 0, TRUE))
          /\ errorLog' = errorLog \o ErrorLines(ManifestOf(manifest, failed))
          /\ Abort("batch_" \o batchStatus.status)
  /\ UNCHANGED << encoded, fx, answers, tryOutcome >>
  /\ UNCHANGED << mode, imagePaths, fileSize, batches, currentBatch,
                  currentBatchSize, planIdx, batchIndex, manifest, batchStatus,
                  polls, results, resIdx, syncI, attempt >>

\* try { downloadBatchErrors; log each } catch { log }; throw new Error(...)
DownloadBatchErrors ==
  /\ pc = "errors"
  /\ \/ /\ events' = Append(events, Ev("download_errors", batchIndex + 1, 0, FALSE))
        /\ errorLog' = Append(errorLog, [kind |-> "error_details", id |-> 0])
     \/ \E failed \in SUBSET Range(manifest) :
          /\ events' = Append(events, Ev("download_errors", batchIndex + 1, 0, TRUE))
          /\ errorLog' = errorLog \o ErrorLines(ManifestOf(manifest, failed))
  /\ Abort("batch_" \o batchStatus.status)
  /\ UNCHANGED << encoded, fx, answers, tryOutcome >>
  /\ UNCHANGED << mode, imagePaths, fileSize, batches, currentBatch,
                  currentBatchSize, planIdx, batchIndex, manifest, batchStatus,
                  polls, results, resIdx, syncI, attempt >>

\* await new Promise((resolve) => setTimeout(resolve, 30000)); loop again
Wait ==
  /\ pc = "wait"
  /\ polls < MaxPolls
  /\ polls' = polls + 1
  /\ events' = Append(events, Pause("wait", batchIndex + 1, 0, POLL_INTERVAL_MS))
  /\ pc' = IF batchStatus.status # "completed" THEN "poll" ELSE "download"
  /\ UNCHANGED << encoded, fx, answers, tryOutcome >>
  /\ UNCHANGED << mode, imagePaths, fileSize, batches, currentBatch,
                  currentBatchSize, planIdx, batchIndex, manifest, batchStatus,
                  results, resIdx, syncI, attempt, written, errorLog, runError >>

ResultKinds == {"ok", "error", "nochoices"}

\* the record lists a download may return: at most one record per request
ResultLists(m) ==
  UNION { { r \in [1 .. k -> [custom_id : Range(m), kind : ResultKinds]] :
              \A i, j \in 1 .. k : i # j => r[i].custom_id # r[j].custom_id }
          : k \in 0 .. Len(m) }

\* variant: a failed download is tried again
DownloadBatchResults_Retries ==
  /\ pc = "download"
  /\ \/ /\ events' = Append(events, Fetch("download_results", batchIndex + 1, FALSE,
                                       batchStatus.output_file_id))
        /\ UNCHANGED << pc, runError, written, results, resIdx >>
     \/ /\ events' = Append(events, Fetch("download_results", batchIndex + 1, TRUE,
                                       batchStatus.output_file_id))
        /\ results' \in ResultLists(manifest)
        /\ resIdx' = 1
        /\ pc' = "reconcile"
        /\ UNCHANGED << runError, written >>
  /\ UNCHANGED << encoded, fx, answers, tryOutcome >>
  /\ UNCHANGED << mode, imagePaths, fileSize, batches, currentBatch,
                  currentBatchSize, planIdx, batchIndex, manifest, batchStatus,
                  polls, syncI, attempt, errorLog >>

\* const results = await downloadBatchResults(apiKey, batchStatus.output_file_id)
DownloadBatchResults ==
  /\ pc = "download"
  /\ \/ /\ events' = Append(events, Fetch("download_results", batchIndex + 1, FALSE,
                                       batchStatus.output_file_id))
        /\ Abort("download")
        /\ UNCHANGED << results, resIdx >>
     \/ /\ events' = Append(events, Fetch("download_results", batchIndex + 1, TRUE,
                                       batchStatus.output_file_id))
        /\ results' \in ResultLists(manifest)
        /\ resIdx' = 1
        /\ pc' = "reconcile"
        /\ UNCHANGED << runError, written >>
  /\ UNCHANGED << encoded, fx, answers, tryOutcome >>
  /\ UNCHANGED << mode, imagePaths, fileSize, batches, currentBatch,
                  currentBatchSize, planIdx, batchIndex, manifest, batchStatus,
                  polls, syncI, attempt, errorLog >>

\* one iteration of  for (const result of results)
ReconcileRecord ==
  /\ pc = "reconcile"
  /\ resIdx <= Len(results)
  /\ LET result == results[resIdx]
     IN  IF result.kind = "error"
           THEN /\ errorLog' = Append(errorLog, [kind |-> "result_error", id |-> result.custom_id])
                /\ resIdx' = resIdx + 1
                /\ UNCHANGED << pc, runError, written >>
           ELSE IF result.kind = "nochoices"
             THEN /\ Abort("result_record")
                  /\ UNCHANGED << resIdx, errorLog >>
             ELSE \/ /\ written' = Append(written, [id |-> result.custom_id, chunk |-> batchIndex + 1])
                     /\ resIdx' = resIdx + 1
                     /\ UNCHANGED << pc, runError, errorLog >>
                  \/ /\ Abort("write")
                     /\ UNCHANGED << resIdx, errorLog >>
  /\ UNCHANGED << encoded, fx, answers, tryOutcome >>
  /\ UNCHANGED << mode, imagePaths, fileSize, batches, currentBatch,
                  currentBatchSize, planIdx, batchIndex, manifest, batchStatus,
                  polls, results, syncI, attempt, events >>

\* end of the result loop: batchIndex++ and the chunk loop condition
FinishBatch ==
  /\ pc = "reconcile"
  /\ resIdx > Len(results)
  /\ batchIndex' = batchIndex + 1
  /\ pc' = LoopPc(batchIndex + 1, batches)
  /\ UNCHANGED << encoded, fx, answers, tryOutcome >>
  /\ UNCHANGED << mode, imagePaths, fileSize, batches, currentBatch,
                  currentBatchSize, planIdx, manifest, batchStatus, polls,
                  results, resIdx, syncI, attempt, events, written, errorLog,
                  runError >>

\* ---------------------------------------------------- synchronous pipeline
\* head of  for (let i = 0; i < pathToImagesList.length; i++):
\* the delay before every item but the first, then the first attempt is due
SyncLoop ==
  /\ pc = "sync_loop"
  /\ IF syncI < Len(imagePaths)
       THEN /\ events' = IF syncI > 0
                           THEN Append(events, Pause("delay", syncI + 1, 1, RetryDelay(1)))
                           ELSE events
            /\ attempt' = 1
            /\ pc' = "sync_attempt"
       ELSE /\ pc' = "done"
            /\ UNCHANGED << events, attempt >>
  /\ UNCHANGED << encoded, fx, answers, tryOutcome >>
  /\ UNCHANGED << mode, imagePaths, fileSize, batches, currentBatch,
                  currentBatchSize, planIdx, batchIndex, manifest, batchStatus,
                  polls, results, resIdx, syncI, written, errorLog, runError >>

\* what one pass through the try block can do
AttemptOutcomes == {"ok", "request_throws", "no_choices", "write_throws"}

\* variant: the cap is not the retries argument
Retry_IgnoresCap(att, retries) == att < retries + retries

\* variant: one attempt too many
Retry_OffByOne(att, retries) == att <= retries

\* variant: the catch block gives up at once
Retry_Never(att, retries) == FALSE

\* whether the catch block retries
Retry(att, retries) == att < retries

\* variant: a throw of writeFileSync is not seen by the catch block
Completed_IgnoresWrite(outcome) == outcome \in {"ok", "write_throws"}

\* the try block reaches its end: the response carried choices[0].message
\* and writeFileSync returned
Completed(outcome) == outcome = "ok"

\* one call of attemptQueryWithRetry: the try block and, on a throw, the catch
AttemptQueryWithRetry ==
  /\ pc = "sync_attempt"
  /\ \E base64Image \in EncodeResults, outcome \in AttemptOutcomes :
       LET item == imagePaths[syncI + 1]
           query == Ev("attempt", syncI + 1, attempt, Completed(outcome))
       IN  /\ encoded' = [p \in {item} |-> base64Image]
           /\ tryOutcome' = outcome
           /\ IF Completed(outcome)
                 THEN /\ events' = Append(events, query)
                      /\ written' = Append(written, [id |-> item, chunk |-> 0])
                      /\ syncI' = syncI + 1
                      /\ pc' = "sync_loop"
                      /\ UNCHANGED << attempt, errorLog >>
                 ELSE IF Retry(attempt, SYNC_RETRIES)
                   THEN /\ events' = events \o << query, Pause("delay", syncI + 1, attempt + 1, RetryDelay(attempt + 1)) >>
                        /\ attempt' = attempt + 1
                        /\ UNCHANGED << pc, syncI, written, errorLog >>
                   ELSE /\ events' = Append(events, query)
                        /\ errorLog' = Append(errorLog, [kind |-> "all_retries_failed", id |-> item])
                        /\ syncI' = syncI + 1
                        /\ pc' = "sync_loop"
                        /\ UNCHANGED << attempt, written >>
  /\ UNCHANGED << fx, answers >>
  /\ UNCHANGED << mode, imagePaths, fileSize, batches, currentBatch,
                  currentBatchSize, planIdx, batchIndex, manifest, batchStatus,
                  polls, results, resIdx, runError >>

Next ==
  \/ Main
  \/ PlanStep
  \/ PlanStatFail
  \/ PlanFinish
  \/ CreateBatchInputFile
  \/ CreateBatch
  \/ CheckBatchStatus
  \/ DownloadBatchErrors
  \/ Wait
  \/ DownloadBatchResults
  \/ ReconcileRecord
  \/ FinishBatch
  \/ SyncLoop
  \/ AttemptQueryWithRetry

Spec == Init /\ [][Next]_vars

\* the Node event loop always resumes the one pending continuation
LiveSpec == Spec /\ WF_vars(Next)

\* ============================================== functions of the pipelines
\* The pure functions are exercised on their own: the pipeline is not
\* started and fx holds one call's arguments and results.
Idle ==
  /\ pc = "idle"
  /\ mode = "none"
  /\ imagePaths = << >>
  /\ fileSize = << >>
  /\ batches = << >>
  /\ currentBatch = << >>
  /\ currentBatchSize = 0
  /\ planIdx = 1
  /\ batchIndex = 0
  /\ manifest = << >>
  /\ batchStatus = NoStatus
  /\ polls = 0
  /\ results = << >>
  /\ resIdx = 1
  /\ syncI = 0
  /\ attempt = 1
  /\ events = << >>
  /\ written = << >>
  /\ errorLog = << >>
  /\ runError = NoError
  /\ encoded = << >>
  /\ answers = NoAnswers
  /\ tryOutcome = "none"

StaysIdle ==
  UNCHANGED << pc, mode, imagePaths, fileSize, batches, currentBatch,
               currentBatchSize, planIdx, batchIndex, manifest, batchStatus,
               polls, results, resIdx, syncI, attempt, events, written,
               errorLog, runError, encoded, answers, tryOutcome >>

\* ------------------------------------------------------------ cleanMessage
\* a string is a sequence of characters; "$1" in a replacement template is
\* the reference to the first capture group
Chars == {"(", ")", "\"", "\\", "a"}

Example == << "H", "e", " ", "s", "a", "i", "d", " ", "\"", "h", "i", "\"",
              " ", "(", "l", "o", "u", "d", "l", "y", ")" >>

ExampleCleaned == << "H", "e", " ", "s", "a", "i", "d", " ", "\\", "\"", "h", "i",
                     "\\", "\"", " ", "\\", "(", "l", "o", "u", "d", "l", "y",
                     "\\", ")" >>

Messages == UNION { [1 .. n -> Chars] : n \in 0 .. MaxLen } \cup { Example }

\* the replacement template with the matched character for the group
Expand(template, ch) ==
  [i \in DOMAIN template |-> IF template[i] = "$1" THEN ch ELSE template[i]]

\* String.prototype.replace with a global one-character class pattern
RECURSIVE ReplaceAll(_, _, _)
ReplaceAll(m, class, template) ==
  IF m = << >> THEN << >>
  ELSE (IF Head(m) \in class THEN Expand(template, Head(m)) ELSE << Head(m) >>)
         \o ReplaceAll(Tail(m), class, template)

\* the replace of a pattern that skips a character already behind a "\\"
RECURSIVE ReplaceUnescaped(_, _, _, _)
ReplaceUnescaped(m, class, template, behind) ==
  IF m = << >> THEN << >>
  ELSE (IF Head(m) \in class /\ ~behind THEN Expand(template, Head(m)) ELSE << Head(m) >>)
         \o ReplaceUnescaped(Tail(m), class, template, Head(m) = "\\" /\ ~behind)

\* variant: an already escaped character is left alone
cleanMessage_Idempotent(message) ==
  ReplaceUnescaped(message, {"(", ")", "\""}, << "\\", "$1" >>, FALSE)

\* variant: the double quote is missing from the character class
cleanMessage_ParensOnly(message) == ReplaceAll(message, {"(", ")"}, << "\\", "$1" >>)

\* batchApi.js: message.replace(/([()"])/g, "\\$1")
cleanMessage(message) == ReplaceAll(message, {"(", ")", "\""}, << "\\", "$1" >>)

\* index.js: message.replace(/([()"])/g, "\\$1")
cleanMessageSync(message) == ReplaceAll(message, {"(", ")", "\""}, << "\\", "$1" >>)

CleanInit ==
  /\ Idle
  /\ \E m \in Messages :
       fx = [op |-> "cleanMessage", message |-> m, ranBatch |-> FALSE,
             batch |-> << >>, ranSync |-> FALSE, sync |-> << >>,
             ranAgain |-> FALSE, again |-> << >>]

\* const cleanedMessage = cleanMessage(message.content)   (batch path)
CleanBatchCall ==
  /\ fx.op = "cleanMessage"
  /\ ~fx.ranBatch
  /\ fx' = [fx EXCEPT !.ranBatch = TRUE, !.batch = cleanMessage(fx.message)]
  /\ StaysIdle

\* const cleanedMessage = cleanMessage(message.content)   (synchronous path)
CleanSyncCall ==
  /\ fx.op = "cleanMessage"
  /\ ~fx.ranSync
  /\ fx' = [fx EXCEPT !.ranSync = TRUE, !.sync = cleanMessageSync(fx.message)]
  /\ StaysIdle

\* cleanMessage applied to a caption that was cleaned before
CleanAgainCall ==
  /\ fx.op = "cleanMessage"
  /\ fx.ranBatch
  /\ ~fx.ranAgain
  /\ fx' = [fx EXCEPT !.ranAgain = TRUE, !.again = cleanMessage(fx.batch)]
  /\ StaysIdle

CleanNext == CleanBatchCall \/ CleanSyncCall \/ CleanAgainCall

CleanSpec == CleanInit /\ [][CleanNext]_vars

\* ------------------------------------------------------------ file naming
\* A path or file name is a sequence of tokens: ".", "/" and "\\" stand
\* for themselves, any other token is a run of characters free of them.
FileNames == << << "a", ".", "png" >>, << "a", ".", "jpg" >>, << "b", ".", "png" >>,
                << "a", ".", "b", ".", "png" >>, << "a", ".", "PNG" >>,
                << "a", ".", "txt" >>, << ".", "png" >>, << "a" >>,
                << "x", "\\", "a", ".", "png" >> >>

imagesFolderPath == << "my", ".", "images" >>

outputFolderPath == << "out" >>

FileExts == {"txt", "caption"}

Captions == { << "a" >>, << "(", "a", ")" >> }

imageExtensions ==
  {"png", "jpeg", "jpg", "gif", "bmp", "tiff", "tif", "svg", "webp", "ico"}

toLowerCase(tok) == IF tok = "PNG" THEN "png" ELSE tok

\* index of the last token of s that is in set, 0 if there is none
LastIn(s, set) ==
  LET at == {i \in DOMAIN s : s[i] \in set}
  IN  IF at = {} THEN 0 ELSE CHOOSE i \in at : \A j \in at : j <= i

\* path.basename: what follows the last separator
basename(p) == SubSeq(p, LastIn(p, {"/"}) + 1, Len(p))

\* path.extname: from the last "." of the base name on; empty if there is
\* no ".", if the only "." leads the name, or for the name ".."
extname(p) ==
  LET b == basename(p)
      d == LastIn(b, {"."})
  IN  IF d <= 1 \/ b = << ".", "." >> THEN << >> ELSE SubSeq(b, d, Len(b))

\* variant: the custom id is used whole, as in the single-job copy
parseName_Whole(p) == basename(p)

\* path.parse(p).name: the base name without the extension
parseName(p) ==
  LET b == basename(p)
  IN  SubSeq(b, 1, Len(b) - Len(extname(p)))

\* path.join of a folder and one directory entry
join(folder, file) == folder \o << "/" >> \o file

\* getFileNameFromPath: path.split(/[/\\]/).pop(), then
\* fileName.split(".").slice(0, -1).join(".")
getFileNameFromPath(p) ==
  LET fileName == SubSeq(p, LastIn(p, {"/", "\\"}) + 1, Len(p))
      d        == LastIn(fileName, {"."})
  IN  IF d = 0 THEN << >> ELSE SubSeq(fileName, 1, d - 1)

\* variant: the custom id is the file name without its extension
custom_id_StripsExt(imagePath) == getFileNameFromPath(imagePath)

\* const fileName = path.basename(imagePath); custom_id: fileName
custom_id(imagePath) == basename(imagePath)

\* imageExtensions.includes(path.extname(file).slice(1).toLowerCase())
IsImage(file) ==
  LET ext       == extname(file)
      extension == IF ext = << >> THEN << >> ELSE Tail(ext)
  IN  /\ Len(extension) = 1
      /\ toLowerCase(extension[1]) \in imageExtensions

\* getListOfPathToImages: the listed files with an image extension, joined
\* to the folder, in listing order
getListOfPathToImages(folder, files) ==
  LET kept == SelectSeq(files, IsImage)
  IN  [i \in DOMAIN kept |-> join(folder, kept[i])]

\* `${outputFolderPath}/${name}.${fileExt}`
fileFullPath(name, fileExt) == outputFolderPath \o << "/" >> \o name \o << ".", fileExt >>

\* fs.writeFileSync(path, data): the file at path holds data, others stay
writeFileSync(fs, path, data) ==
  [q \in DOMAIN fs \cup {path} |-> IF q = path THEN data ELSE fs[q]]

\* the directory listings: sub-lists of FileNames of at most MaxImages files
Listings ==
  { SelectSeq(FileNames, LAMBDA f : \E i \in S : FileNames[i] = f) :
      S \in {T \in SUBSET DOMAIN FileNames : Cardinality(T) <= MaxImages} }

\* the output folder before the run: empty, or holding one older caption
OldFolders(fileExt) ==
  { << >>, [q \in {fileFullPath(<< "a" >>, fileExt)} |-> << "old" >>] }

WriteInit ==
  /\ Idle
  /\ \E files \in Listings, useBatchProcessing \in BOOLEAN, fileExt \in FileExts :
       \E fs0 \in OldFolders(fileExt) :
         fx = [op |-> "write", stage |-> "list", batch |-> useBatchProcessing,
               fileExt |-> fileExt, files |-> files, paths |-> << >>,
               ids |-> << >>, idx |-> 1, fs0 |-> fs0, fs |-> fs0, log |-> << >>]

\* const pathToImagesList = await getListOfPathToImages(imagesFolderPath)
ListImages ==
  /\ fx.op = "write"
  /\ fx.stage = "list"
  /\ fx' = [fx EXCEPT !.paths = getListOfPathToImages(imagesFolderPath, fx.files),
                      !.stage = IF fx.batch THEN "requests" ELSE "write"]
  /\ StaysIdle

\* createBatchInputFile: custom_id: path.basename(imagePath), per image
BuildRequests ==
  /\ fx.op = "write"
  /\ fx.stage = "requests"
  /\ fx' = [fx EXCEPT !.ids = [i \in DOMAIN fx.paths |-> custom_id(fx.paths[i])],
                      !.stage = "write"]
  /\ StaysIdle

\* one output file written for record or item number idx
WriteStep(name, caption, data) ==
  LET path == fileFullPath(name, fx.fileExt)
  IN  fx' = [fx EXCEPT !.fs = writeFileSync(fx.fs, path, data),
                       !.log = Append(fx.log, [item |-> fx.idx, path |-> path,
                                               caption |-> caption, data |-> data]),
                       !.idx = fx.idx + 1]

\* the result loop of processBatchImages, for a record without error
WriteBatchResult ==
  /\ fx.op = "write"
  /\ fx.stage = "write"
  /\ fx.batch
  /\ fx.idx <= Len(fx.ids)
  /\ \E content \in Captions :
       WriteStep(parseName(fx.ids[fx.idx]), content, cleanMessage(content))
  /\ StaysIdle

\* processImagesSynchronously and the try block of attemptQueryWithRetry
WriteSyncResult ==
  /\ fx.op = "write"
  /\ fx.stage = "write"
  /\ ~fx.batch
  /\ fx.idx <= Len(fx.paths)
  /\ \E content \in Captions :
       WriteStep(getFileNameFromPath(fx.paths[fx.idx]), content, cleanMessageSync(content))
  /\ StaysIdle

WriteNext == ListImages \/ BuildRequests \/ WriteBatchResult \/ WriteSyncResult

WriteSpec == WriteInit /\ [][WriteNext]_vars

\* --------------------------------------------------- result reconciliation
\* The result loop of processBatchImages run on two orderings of the same
\* downloaded records, each from the same (empty) output folder.
CustomIds == { << "a", ".", "png" >>, << "a", ".", "jpg" >>, << "b", ".", "png" >> }

\* a downloaded record: with an error, without choices, or with a caption
Records ==
  [custom_id : CustomIds, kind : {"error", "nochoices"}, content : {<< >>}]
    \cup [custom_id : CustomIds, kind : {"ok"}, content : Captions]

\* the record lists of at most MaxImages records, one per custom id at most
RecordLists ==
  UNION { { r \in [1 .. n -> Records] :
              \A i, j \in 1 .. n : i # j => r[i].custom_id # r[j].custom_id }
          : n \in 0 .. MaxImages }

\* the orderings of the records of list r
Orderings(r) ==
  { [i \in DOMAIN r |-> r[f[i]]] :
      f \in {g \in [DOMAIN r -> DOMAIN r] : \A i, j \in DOMAIN r : i # j => g[i] # g[j]} }

NewRun == [fs |-> << >>, idx |-> 1, thrown |-> FALSE]

\* one iteration of  for (const result of results)  on a run of the loop
ReconcileOne(run, result, fileExt) ==
  IF result.kind = "error"
    THEN [run EXCEPT !.idx = run.idx + 1]
    ELSE IF result.kind = "nochoices"
      THEN [run EXCEPT !.thrown = TRUE]
      ELSE [run EXCEPT !.idx = run.idx + 1,
                       !.fs = writeFileSync(run.fs,
                                fileFullPath(parseName(result.custom_id), fileExt),
                                cleanMessage(result.content))]

RunOver(run, recs) == run.thrown \/ run.idx > Len(recs)

ReconcileInit ==
  /\ Idle
  /\ \E recs \in RecordLists : \E other \in Orderings(recs) :
       fx = [op |-> "reconcile", fileExt |-> "txt", first |-> recs,
             second |-> other, runA |-> NewRun, runB |-> NewRun]

\* the loop over the records in the first order
ReconcileFirstOrder ==
  /\ fx.op = "reconcile"
  /\ ~RunOver(fx.runA, fx.first)
  /\ fx' = [fx EXCEPT !.runA = ReconcileOne(fx.runA, fx.first[fx.runA.idx], fx.fileExt)]
  /\ StaysIdle

\* the loop over the same records in the second order
ReconcileSecondOrder ==
  /\ fx.op = "reconcile"
  /\ ~RunOver(fx.runB, fx.second)
  /\ fx' = [fx EXCEPT !.runB = ReconcileOne(fx.runB, fx.second[fx.runB.idx], fx.fileExt)]
  /\ StaysIdle

ReconcileNext == ReconcileFirstOrder \/ ReconcileSecondOrder

ReconcileSpec == ReconcileInit /\ [][ReconcileNext]_vars

\* ------------------------------------------------- the two write contracts
\* One image file of the folder and one caption, written once as the batch
\* reconciler writes it and once as the synchronous path writes it.
ImageFiles == {f \in Range(FileNames) : IsImage(f)}

NoWrite == [path |-> << >>, data |-> << >>]

ContractInit ==
  /\ Idle
  /\ \E file \in ImageFiles, content \in Messages, fileExt \in FileExts :
       fx = [op |-> "contract", imagePath |-> join(imagesFolderPath, file),
             content |-> content, fileExt |-> fileExt,
             batch |-> NoWrite, sync |-> NoWrite]

\* custom_id, path.parse(custom_id).name, cleanMessage, writeFileSync
WriteAsBatch ==
  /\ fx.op = "contract"
  /\ fx.batch = NoWrite
  /\ fx' = [fx EXCEPT !.batch =
              [path |-> fileFullPath(parseName(custom_id(fx.imagePath)), fx.fileExt),
               data |-> cleanMessage(fx.content)]]
  /\ StaysIdle

\* getFileNameFromPath(filePath), cleanMessage, writeFileSync
WriteAsSync ==
  /\ fx.op = "contract"
  /\ fx.sync = NoWrite
  /\ fx' = [fx EXCEPT !.sync =
              [path |-> fileFullPath(getFileNameFromPath(fx.imagePath), fx.fileExt),
               data |-> cleanMessageSync(fx.content)]]
  /\ StaysIdle

ContractNext == WriteAsBatch \/ WriteAsSync

ContractSpec == ContractInit /\ [][ContractNext]_vars

\* =================================================================== claims
\* the planning pass ran to its end (no statSync error) in the batch pipeline
PlanDone == mode = "batch" /\ pc # "plan" /\ runError.kind # "stat"

\* the estimate the specification prescribes for one item: size x 1.33
ClaimEst(p) == fileSize[p] * 133

RECURSIVE ClaimSum(_)
ClaimSum(c) == IF c = << >> THEN 0 ELSE ClaimEst(Head(c)) + ClaimSum(Tail(c))

\* C1: the chunks built by the planning pass, concatenated in chunk order,
\* are exactly the input list (nothing lost, duplicated or reordered).
C1_ChunksConcatToInput == PlanDone => Flatten(batches) = imagePaths

C1_Witness ==
  /\ PlanDone
  /\ Len(imagePaths) = 3
  /\ Len(batches) = 2
  /\ \E c \in DOMAIN batches : Len(batches[c]) = 2

\* C2: a chunk whose estimated size (sum of size x 1.33) exceeds the budget
\* holds exactly one item; a chunk of two or more items never exceeds it.
C2_OnlySingletonsExceedBudget ==
  PlanDone => \A c \in DOMAIN batches :
                ClaimSum(batches[c]) > ScaledBudget => Len(batches[c]) = 1

C2_Witness ==
  /\ PlanDone
  /\ \E c \in DOMAIN batches : Len(batches[c]) = 1 /\ ClaimSum(batches[c]) > ScaledBudget
  /\ \E c \in DOMAIN batches : Len(batches[c]) = 2

\* index of the chunk holding path p, and p's position in it
ChunkOf(p) == CHOOSE c \in DOMAIN batches : p \in Range(batches[c])
PosIn(c, p) == CHOOSE j \in DOMAIN batches[c] : batches[c][j] = p

\* running estimated total of the chunk that holds input item i-1, up to it
RunningTotalBefore(i) ==
  LET prev == imagePaths[i - 1]
      c == ChunkOf(prev)
  IN  ClaimSum(SubSeq(batches[c], 1, PosIn(c, prev)))

\* a chunk boundary was placed before input item i
BoundaryBefore(i) ==
  \E c \in DOMAIN batches :
    c > 1 /\ batches[c] # << >> /\ batches[c][1] = imagePaths[i]

\* C3: the plan is the left-to-right greedy one: a boundary stands before
\* item i iff the current chunk is non-empty and its running total plus
\* 1.33 x size(i) is strictly greater than the budget; 50, 50, 150 MiB
\* give the chunks [[a,b],[c]].
C3_GreedyBoundaries ==
  PlanDone =>
    /\ Flatten(batches) = imagePaths
    /\ \A c \in DOMAIN batches : batches[c] # << >>
    /\ \A i \in DOMAIN imagePaths :
         BoundaryBefore(i) <=>
           (i > 1 /\ RunningTotalBefore(i) + ClaimEst(imagePaths[i]) > ScaledBudget)
    /\ (Len(imagePaths) = 3 /\ fileSize = << 50, 50, 150 >>)
         => batches = << << 1, 2 >>, << 3 >> >>

C3_Witness ==
  /\ PlanDone
  /\ Len(imagePaths) = 3
  /\ fileSize = << 50, 50, 150 >>
  /\ batches = << << 1, 2 >>, << 3 >> >>

\* ------------------------------------------------------- log vocabulary
BatchApiOps == {"upload", "create", "poll", "download_results", "download_errors"}

\* positions in the log of the calls with operation op for chunk/item k
CallsOf(op, k) == {i \in DOMAIN events : events[i].op = op /\ events[i].k = k}

\* position of the last status poll in the log (0 if none)
LastPoll ==
  LET ps == {i \in DOMAIN events : events[i].op = "poll"}
  IN  IF ps = {} THEN 0 ELSE CHOOSE i \in ps : \A j \in ps : j <= i

JobFailed == batchStatus.status \in {"failed", "expired"}

\* C4: once a poll of chunk k returned failed or expired the run aborts:
\* the only call that may still follow is the error-file download of chunk
\* k, and no upload, job creation, poll or download exists for a chunk > k.
C4_FailedJobAbortsRun ==
  JobFailed =>
    /\ pc \in {"errors", "aborted"}
    /\ LastPoll > 0 /\ events[LastPoll].k = batchIndex + 1
    /\ \A i \in DOMAIN events :
         /\ events[i].op \in BatchApiOps => events[i].k <= batchIndex + 1
         /\ i > LastPoll => events[i].op = "download_errors" /\ events[i].k = batchIndex + 1
    /\ pc = "aborted" => runError.chunk = batchIndex + 1

C4_Witness ==
  /\ JobFailed
  /\ pc = "aborted"
  /\ Len(batches) = 3
  /\ batchIndex = 1
  /\ \E i \in DOMAIN written : written[i].chunk = 1

\* number of lines of the given kind logged for custom id x
Logged(kind, x) ==
  Cardinality({i \in DOMAIN errorLog : errorLog[i].kind = kind /\ errorLog[i].id = x})

\* number of output files written for custom id x of chunk k
Writes(x, k) ==
  Cardinality({i \in DOMAIN written : written[i].id = x /\ written[i].chunk = k})

\* C5: for a completed job every record with an error gives one logged
\* error and no file, every record without an error gives one file write,
\* no record stops the remaining ones, and the run goes on with the next
\* chunk (reconciliation never ends the run).
C5_EveryRecordReconciled ==
  /\ pc = "reconcile" =>
       \A i \in 1 .. resIdx - 1 :
         IF results[i].kind = "error"
           THEN Logged("result_error", results[i].custom_id) = 1
                /\ Writes(results[i].custom_id, batchIndex + 1) = 0
           ELSE Writes(results[i].custom_id, batchIndex + 1) = 1
  /\ ~(pc = "aborted" /\ runError.kind \in {"result_record", "write"})

\* the attempts logged for input item k (1-based), as positions in the log
Attempts(k) == CallsOf("attempt", k)

\* input item k has been left behind by the synchronous loop
ItemOver(k) == mode = "sync" /\ k <= syncI

\* C6: an item whose first successful attempt is attempt k <= 3 has exactly
\* one output file and no permanent failure; an item whose 3 attempts all
\* failed has no output file and exactly one permanent failure; either way
\* the loop has moved on and nothing more is attempted for the item.
C6_RetryOutcome ==
  \A k \in DOMAIN imagePaths :
    ItemOver(k) =>
      LET succ == {i \in Attempts(k) : events[i].ok}
          fail == {i \in Attempts(k) : ~events[i].ok}
      IN  /\ Cardinality(Attempts(k)) \in 1 .. 3
          /\ {events[i].a : i \in Attempts(k)} = 1 .. Cardinality(Attempts(k))
          /\ IF succ # {}
               THEN /\ Cardinality(succ) = 1
                    /\ \A i \in succ : \A j \in fail : j < i
                    /\ Writes(imagePaths[k], 0) = 1
                    /\ Logged("all_retries_failed", imagePaths[k]) = 0
               ELSE /\ Cardinality(fail) = 3
                    /\ Writes(imagePaths[k], 0) = 0
                    /\ Logged("all_retries_failed", imagePaths[k]) = 1

C6_Witness ==
  /\ mode = "sync"
  /\ pc = "done"
  /\ Len(imagePaths) = 3
  /\ \E k \in DOMAIN imagePaths :
       /\ Cardinality(Attempts(k)) = 3
       /\ \E i \in Attempts(k) : events[i].ok /\ events[i].a = 3
  /\ \E k \in DOMAIN imagePaths :
       /\ Cardinality(Attempts(k)) = 3
       /\ \A i \in Attempts(k) : ~events[i].ok
       /\ k < Len(imagePaths)

\* the captioning attempts of the run, in log order
AttemptLog == SelectSeq(events, LAMBDA e : e.op = "attempt")

C7_Safety ==
  mode = "sync" =>
    /\ pc \in {"sync_loop", "sync_attempt", "done"}
    /\ runError = NoError
    /\ \A i \in DOMAIN AttemptLog :
         /\ i = 1 => AttemptLog[i].k = 1 /\ AttemptLog[i].a = 1
         /\ i > 1 =>
              \/ /\ AttemptLog[i].k = AttemptLog[i - 1].k
                 /\ AttemptLog[i].a = AttemptLog[i - 1].a + 1
                 /\ ~AttemptLog[i - 1].ok
              \/ /\ AttemptLog[i].k = AttemptLog[i - 1].k + 1
                 /\ AttemptLog[i].a = 1
                 /\ (AttemptLog[i - 1].ok \/ AttemptLog[i - 1].a = 3)
    /\ pc = "done" =>
         /\ syncI = Len(imagePaths)
         /\ \A k \in DOMAIN imagePaths : Attempts(k) # {}

\* C7: the synchronous run never aborts on an item's failure: items are
\* attempted in input order, item i+1 only after item i succeeded or used
\* its 3 attempts, every item is attempted at least once, and the run
\* ends after the last item.
C7_SyncNeverAborts == [] C7_Safety /\ ((mode = "sync") ~> (pc = "done"))

C7_Witness ==
  /\ mode = "sync"
  /\ pc = "done"
  /\ Len(imagePaths) = 3
  /\ Logged("all_retries_failed", imagePaths[1]) = 1
  /\ Writes(imagePaths[2], 0) = 0
  /\ Writes(imagePaths[3], 0) = 1

\* C8: per chunk at most one upload and at most one job creation; a
\* rejected upload or creation is the last call of the run, which is then
\* aborted with that submission failure.
C8_SubmissionFailureIsFatal ==
  /\ \A k \in 1 .. Len(batches) :
       /\ Cardinality(CallsOf("upload", k)) <= 1
       /\ Cardinality(CallsOf("create", k)) <= 1
  /\ \A i \in DOMAIN events :
       (events[i].op \in {"upload", "create"} /\ ~events[i].ok) =>
         /\ i = Len(events)
         /\ pc = "aborted"
         /\ runError = [kind |-> events[i].op, chunk |-> events[i].k]

C8_Witness ==
  /\ pc = "aborted"
  /\ runError = [kind |-> "create", chunk |-> 2]
  /\ Len(batches) = 3
  /\ Cardinality(CallsOf("upload", 1)) = 1
  /\ Cardinality(CallsOf("upload", 2)) = 1

\* C9: after a failed or expired poll the error file is downloaded exactly
\* once if the status carries an error-file id and never otherwise, and the
\* run aborts with the batch-job failure of that chunk whether or not that
\* download worked.
C9_ErrorFileThenBatchFailure ==
  JobFailed =>
    LET k == batchIndex + 1
        n == Cardinality(CallsOf("download_errors", k))
    IN  /\ pc = "errors" => n = 0 /\ batchStatus.error_file_id
        /\ pc = "aborted" =>
             /\ n = IF batchStatus.error_file_id THEN 1 ELSE 0
             /\ runError = [kind |-> "batch_" \o batchStatus.status, chunk |-> k]
        /\ pc \in {"errors", "aborted"}

C9_Witness ==
  /\ batchStatus.status = "expired"
  /\ batchStatus.error_file_id
  /\ pc = "aborted"
  /\ \E i \in CallsOf("download_errors", batchIndex + 1) : ~events[i].ok
  /\ runError.kind = "batch_expired"

TerminalStatuses == {"completed", "failed", "expired", "cancelled"}

\* C10: once a poll returned completed, failed, expired or cancelled, the
\* monitor is out of its wait-and-poll loop and no further status poll is
\* issued for that job.
C10_TerminalStatusStopsPolling ==
  [][ (LastPoll > 0 /\ events[LastPoll].ok /\ batchStatus.status \in TerminalStatuses)
        => /\ pc' # "wait"
           /\ \A i \in DOMAIN events' :
                (i > Len(events) /\ events'[i].op = "poll") => events'[i].k # events[LastPoll].k ]_vars

\* the chunks whose job creation succeeded
SubmittedJobs == {events[i].k : i \in {j \in DOMAIN events : events[j].op = "create" /\ events[j].ok}}

\* record r of the job of chunk k was reconciled: one file or one error line
Reconciled(r, k) ==
  \/ r.kind = "ok" /\ Writes(r.custom_id, k) = 1
  \/ r.kind = "error" /\ Logged("result_error", r.custom_id) = 1

\* the call a step appends to the log
NewCall == events'[Len(events')]

\* C11: chunks run one after the other: a step that uploads the manifest or
\* creates the job of chunk k+1 starts from a state where chunk k was seen
\* completed, its results were downloaded after a status poll and every
\* record was reconciled; all submitted jobs but the latest are over.
C11_ChunksSequential ==
  /\ [][ (Len(events') = Len(events) + 1 /\ NewCall.op \in {"upload", "create"} /\ NewCall.k > 1) =>
           /\ NewCall.k = batchIndex + 1
           /\ batchStatus.status = "completed"
           /\ resIdx = Len(results) + 1
           /\ \A i \in DOMAIN results : Reconciled(results[i], batchIndex)
           /\ \E j \in CallsOf("download_results", batchIndex) :
                /\ events[j].ok
                /\ \E h \in CallsOf("poll", batchIndex) : h < j /\ events[h].ok ]_vars
  /\ [](LET sj == SubmittedJobs
        IN  \A k \in sj :
              (\E k2 \in sj : k2 > k) => CallsOf("download_results", k) # {})

C11_Witness ==
  /\ mode = "batch"
  /\ pc = "poll"
  /\ batchIndex = 1
  /\ SubmittedJobs = {1, 2}
  /\ Len(results) = 2
  /\ \E i \in DOMAIN results : results[i].kind = "error"
  /\ \E i \in DOMAIN results : results[i].kind = "ok"

\* C12: the manifest of a chunk holds, in chunk order, exactly the items
\* whose encoding gave a usable (truthy) result; an item whose encoding
\* failed has no record, and the chunk is uploaded once all the same.
C12_ManifestHoldsEncodableItems ==
  (mode = "batch" /\ pc \notin {"main", "plan", "submit", "done"} /\ runError.kind # "stat") =>
    /\ DOMAIN encoded = Range(Chunk)
    /\ manifest = SelectSeq(Chunk, LAMBDA p : encoded[p] = "data")
    /\ \A p \in Range(Chunk) :
         Cardinality({i \in DOMAIN manifest : manifest[i] = p})
           = IF encoded[p] = "data" THEN 1 ELSE 0
    /\ Cardinality(CallsOf("upload", batchIndex + 1)) = 1

C12_Witness ==
  /\ mode = "batch"
  /\ pc = "poll"
  /\ Len(Chunk) = 2
  /\ encoded[Chunk[1]] = "falsy"
  /\ manifest = << Chunk[2] >>
  /\ CallsOf("create", batchIndex + 1) # {}

\* C13: in the synchronous path an item whose encoding fails is skipped:
\* no captioning request is issued for it, no output file is written for
\* it, and the loop goes on with the next item.
C13_SyncSkipsUnencodable ==
  [][ (pc = "sync_attempt" /\ encoded' # encoded /\ encoded'[imagePaths[syncI + 1]] = "falsy")
        => /\ events' = events
           /\ written' = written
           /\ syncI' = syncI + 1 ]_vars

\* C14: when the reconciliation of a completed job is over, every request
\* of its manifest has an output file or a logged failure, and an error
\* file named by the completed status has been fetched.
C14_EveryRequestAccounted ==
  (mode = "batch" /\ pc = "reconcile" /\ resIdx > Len(results)) =>
    /\ \A p \in Range(manifest) :
         Writes(p, batchIndex + 1) + Logged("result_error", p) + Logged("batch_error", p) >= 1
    /\ batchStatus.error_file_id => CallsOf("download_errors", batchIndex + 1) # {}

Escaped == {"(", ")", "\""}

\* number of escaped characters among the first i characters of m
EscapedUpTo(m, i) == Cardinality({j \in 1 .. i : m[j] \in Escaped})

\* r is m with one backslash put right before each escaped character
IsEscapingOf(r, m) ==
  /\ Len(r) = Len(m) + EscapedUpTo(m, Len(m))
  /\ \A i \in DOMAIN m :
       LET at == i + EscapedUpTo(m, i)
       IN  /\ r[at] = m[i]
           /\ m[i] \in Escaped => r[at - 1] = "\\"

\* C15: cleanMessage returns its input with exactly one backslash inserted
\* right before every "(", ")" and double quote, all other characters kept
\* in order (the documented example included), and the batch copy and the
\* synchronous copy return the same string for every input.
C15_CleanMessageEscapes ==
  (fx.op = "cleanMessage") =>
    /\ fx.ranBatch => IsEscapingOf(fx.batch, fx.message)
    /\ fx.ranSync => IsEscapingOf(fx.sync, fx.message)
    /\ (fx.ranBatch /\ fx.ranSync) => fx.batch = fx.sync
    /\ (fx.ranBatch /\ fx.message = Example) => fx.batch = ExampleCleaned

C15_Witness ==
  /\ fx.op = "cleanMessage"
  /\ fx.ranBatch
  /\ fx.ranSync
  /\ fx.message = << "(", "a", "\"" >>
  /\ fx.batch = << "\\", "(", "a", "\\", "\"" >>

\* the log entries of the write loop that wrote to path q
WritesTo(q) == {i \in DOMAIN fx.log : fx.log[i].path = q}

\* the name up to, not including, its last "."
WithoutFinalExt(name) == SubSeq(name, 1, LastIn(name, {"."}) - 1)

\* C16: in the batch path each record without error is written to
\* <outputFolder>/<custom id without its final extension>.<fileExt>; the
\* file holds the cleaned caption and nothing else, whatever it held before.
C16_BatchWritePath ==
  (fx.op = "write" /\ fx.batch) =>
    /\ Len(fx.log) = fx.idx - 1
    /\ \A i \in DOMAIN fx.log :
         LET e == fx.log[i]
         IN  /\ e.path = outputFolderPath \o << "/" >>
                           \o WithoutFinalExt(fx.ids[i]) \o << ".", fx.fileExt >>
             /\ IsEscapingOf(e.data, e.caption)
    /\ DOMAIN fx.fs = DOMAIN fx.fs0 \cup {fx.log[i].path : i \in DOMAIN fx.log}
    /\ \A q \in DOMAIN fx.fs :
         fx.fs[q] = IF WritesTo(q) = {} THEN fx.fs0[q]
                    ELSE fx.log[CHOOSE i \in WritesTo(q) : \A j \in WritesTo(q) : j <= i].data

C16_Witness ==
  /\ fx.op = "write"
  /\ fx.batch
  /\ fx.fileExt = "txt"
  /\ fx.ids = << << "a", ".", "b", ".", "png" >>, << "a", ".", "PNG" >> >>
  /\ fx.idx = 3
  /\ fx.fs0 = [q \in {<< "out", "/", "a", ".", "txt" >>} |-> << "old" >>]
  /\ fx.fs = [q \in {<< "out", "/", "a", ".", "b", ".", "txt" >>, << "out", "/", "a", ".", "txt" >>}
                |-> << "\\", "(", "a", "\\", ")" >>]

\* C17: no two distinct input items are written to the same output path
\* during a run, in the batch path and in the synchronous path.
C17_OutputPathsUnique ==
  (fx.op = "write") =>
    \A i, j \in DOMAIN fx.log :
      fx.log[i].item # fx.log[j].item => fx.log[i].path # fx.log[j].path

\* C18: the custom ids of the requests built from one directory listing are
\* pairwise different, and the custom id of a request is the name the file
\* has in the listing (its base name, extension included).
C18_CustomIdsUnique ==
  (fx.op = "write" /\ fx.batch /\ fx.stage = "write") =>
    /\ Len(fx.ids) = Len(fx.paths)
    /\ \A i, j \in DOMAIN fx.ids : i # j => fx.ids[i] # fx.ids[j]
    /\ fx.ids = SelectSeq(fx.files, LAMBDA f : \E i \in DOMAIN fx.paths :
                                      fx.paths[i] = imagesFolderPath \o << "/" >> \o f)

C18_Witness ==
  /\ fx.op = "write"
  /\ fx.batch
  /\ fx.stage = "write"
  /\ fx.ids = << << "a", ".", "png" >>, << "a", ".", "jpg" >>, << "a", ".", "PNG" >> >>
  /\ Len(fx.files) = 3

\* C19: batch mode handles all images of a run as a single batch: one
\* manifest holding every image request is uploaded and exactly one batch
\* job is created, whatever the (non-empty) image list.
C19_SingleBatchJob ==
  (mode = "batch" /\ imagePaths # << >>) =>
    /\ \A i \in DOMAIN events :
         events[i].op \in {"upload", "create"} => events[i].k = 1
    /\ pc = "done" =>
         /\ Cardinality(CallsOf("upload", 1)) = 1
         /\ Cardinality(CallsOf("create", 1)) = 1
         /\ Len(batches) = 1

\* C20: in the synchronous path no item gets more than 3 captioning
\* requests, the attempts of an item are numbered 1, 2, 3 in order, nothing
\* is requested for an item after one of its attempts succeeded, and a run
\* over N items issues at most 3N requests.
C20_AtMostThreeRequests ==
  mode = "sync" =>
    /\ \A k \in DOMAIN imagePaths :
         LET at == Attempts(k)
         IN  /\ Cardinality(at) <= 3
             /\ \A i \in at :
                  /\ events[i].a = Cardinality({j \in at : j <= i})
                  /\ events[i].ok => \A j \in at : j <= i
    /\ \A i \in DOMAIN events :
         events[i].op = "attempt" => events[i].k \in DOMAIN imagePaths
    /\ Len(AttemptLog) <= 3 * Len(imagePaths)

C20_Witness ==
  /\ mode = "sync"
  /\ Len(imagePaths) = 2
  /\ Len(AttemptLog) = 6
  /\ AttemptLog[3].ok
  /\ ~AttemptLog[6].ok
  /\ pc = "done"

\* C21: in the synchronous path every captioning request but the first of
\* the run comes right after exactly one wait of 60000 / RATE_LIMIT_PER_MINUTE
\* ms (one before the first attempt of each later item, one before each
\* retry, always the same length); nothing precedes the first request, and
\* an item is given up at its third failed attempt, without a further wait.
C21_FixedDelayBeforeRequests ==
  mode = "sync" =>
    \A i \in DOMAIN events :
      LET e == events[i]
      IN  /\ e.op = "attempt" =>
               IF e.k = 1 /\ e.a = 1
                 THEN i = 1
                 ELSE /\ i >= 3
                      /\ events[i - 1] = Pause("delay", e.k, e.a, (60000 * 1000) \div RATE_LIMIT_PER_MINUTE)
                      /\ events[i - 2].op = "attempt"
          /\ e.op = "delay" =>
               /\ i > 1
               /\ IF i < Len(events) THEN events[i + 1].op = "attempt"
                                     ELSE pc = "sync_attempt"
          /\ (e.op = "attempt" /\ ~e.ok /\ e.a = 3) =>
               /\ syncI >= e.k
               /\ Logged("all_retries_failed", imagePaths[e.k]) = 1

C21_Witness ==
  /\ mode = "sync"
  /\ Len(events) = 5
  /\ events[1] = Ev("attempt", 1, 1, FALSE)
  /\ events[2].op = "delay" /\ events[2].a = 2
  /\ events[3] = Ev("attempt", 1, 2, TRUE)
  /\ events[4].op = "delay" /\ events[4].k = 2 /\ events[4].ms = events[2].ms
  /\ events[5].op = "attempt"

\* the latest call in the log
LastCall == events[Len(events)]

\* a step that appends exactly one call with operation op to the log
Calls(op) == Len(events') = Len(events) + 1 /\ NewCall.op = op

C23_DownloadOnlyWhenCompleted ==
  /\ [][ Calls("download_results") =>
           /\ batchStatus.status = "completed"
           /\ NewCall.k = batchIndex + 1
           /\ LastCall = Ev("poll", batchIndex + 1, 0, TRUE)
           /\ batchStatus.output_file_id = Len(events)
           /\ NewCall.file = batchStatus.output_file_id
           /\ CallsOf("download_results", batchIndex + 1) = {} ]_vars
  /\ [][ (mode = "batch" /\ written' # written) =>
           /\ batchStatus.status = "completed"
           /\ \E i \in CallsOf("download_results", batchIndex + 1) : events[i].ok ]_vars
  /\ [](batchStatus.status \notin {"completed", "none"} =>
          /\ CallsOf("download_results", batchIndex + 1) = {}
          /\ \A i \in DOMAIN written : written[i].chunk # batchIndex + 1)

C23_Witness ==
  /\ mode = "batch"
  /\ pc = "reconcile"
  /\ batchIndex = 1
  /\ Cardinality(CallsOf("poll", 2)) = 2
  /\ \E i \in CallsOf("download_results", 2) : events[i].file = i - 1 /\ events[i].ok
  /\ \E i \in DOMAIN written : written[i].chunk = 2

\* C24: the order of the result records does not matter: two orderings of
\* the same downloaded records leave the output folder with the same files
\* and the same content in each file.
C24_OrderIndependent ==
  (fx.op = "reconcile" /\ RunOver(fx.runA, fx.first) /\ RunOver(fx.runB, fx.second)) =>
    fx.runA.fs = fx.runB.fs

\* C25: cleaning is not idempotent: for a string with at least one "(", ")"
\* or double quote, cleaning the cleaned string gives a different string,
\* with one more backslash before each of these characters; a string with
\* none of them is returned as it is.
C25_CleanNotIdempotent ==
  (fx.op = "cleanMessage" /\ fx.ranAgain) =>
    LET s == fx.message
    IN  IF EscapedUpTo(s, Len(s)) = 0
          THEN fx.batch = s /\ fx.again = s
          ELSE /\ fx.again # fx.batch
               /\ Len(fx.again) = Len(fx.batch) + EscapedUpTo(s, Len(s))
               /\ \A i \in DOMAIN s :
                    LET at == i + 2 * EscapedUpTo(s, i)
                    IN  /\ fx.again[at] = s[i]
                        /\ s[i] \in Escaped =>
                             fx.again[at - 1] = "\\" /\ fx.again[at - 2] = "\\"

C25_Witness ==
  /\ fx.op = "cleanMessage"
  /\ fx.ranAgain
  /\ fx.message = << "\\", "(", "a" >>
  /\ fx.batch = << "\\", "\\", "(", "a" >>
  /\ fx.again = << "\\", "\\", "\\", "(", "a" >>

\* the failures of chunk k that end the run before any of its records is read
ChunkLost == runError.kind \in {"upload", "create", "batch_failed", "batch_expired"}

\* C26: when the run aborts because the job of chunk k failed or expired, or
\* its submission failed, the files written for chunks 1..k-1 stay as they
\* are: the step that aborts removes or rewrites none, nothing is written
\* for chunk k, and nothing changes afterwards.
C26_AbortKeepsEarlierOutputs ==
  /\ [][ (mode = "batch" /\ pc' = "aborted") => written' = written ]_vars
  /\ []((mode = "batch" /\ pc = "aborted" /\ ChunkLost) =>
          \A i \in DOMAIN written : written[i].chunk < runError.chunk)

C26_Witness ==
  /\ mode = "batch"
  /\ pc = "aborted"
  /\ runError = [kind |-> "batch_expired", chunk |-> 3]
  /\ Len(written) = 2
  /\ written[1].chunk = 1
  /\ written[2].chunk = 2

\* C27: the synchronous path writes as the batch reconciler does: for the
\* same image file, caption and fileExt both write the same path, the base
\* name without its final extension plus fileExt, and the same cleaned text.
C27_SameWriteContract ==
  (fx.op = "contract" /\ fx.batch # NoWrite /\ fx.sync # NoWrite) =>
    /\ fx.sync.path = fx.batch.path
    /\ fx.sync.data = fx.batch.data
    /\ fx.sync.path = outputFolderPath \o << "/" >>
                        \o WithoutFinalExt(basename(fx.imagePath)) \o << ".", fx.fileExt >>

\* C28: the planning pass never produces an empty chunk; an empty input
\* list gives zero chunks, and the batch run then makes no upload, job
\* creation, poll or download call and ends as successful.
C28_NoEmptyChunk ==
  mode = "batch" =>
    /\ \A c \in DOMAIN batches : batches[c] # << >>
    /\ (PlanDone /\ imagePaths = << >>) =>
         /\ batches = << >>
         /\ pc = "done"
         /\ events = << >>
         /\ written = << >>
         /\ runError = NoError

C28_Witness ==
  /\ mode = "batch"
  /\ imagePaths = << >>
  /\ planIdx = 1
  /\ pc = "done"
  /\ batches = << >>

\* the failures met after a job was created and before its records are done
MidJobFailure == runError.kind \in {"status_check", "download", "result_record"}

\* C29: a failed status poll, a failed result download of a completed job
\* or a throw on a record without error (no response.body.choices[0])
\* aborts the run on the spot: the call is not repeated, the records not
\* yet read are not written and no later chunk is submitted.
C29_MidJobFailureAbortsRun ==
  /\ [][ ((Calls("poll") \/ Calls("download_results")) /\ ~NewCall.ok) =>
           /\ pc' = "aborted"
           /\ runError'.chunk = batchIndex + 1
           /\ written' = written ]_vars
  /\ [][ (pc = "reconcile" /\ resIdx <= Len(results) /\ results[resIdx].kind = "nochoices") =>
           /\ pc' = "aborted"
           /\ runError' = [kind |-> "result_record", chunk |-> batchIndex + 1]
           /\ written' = written
           /\ events' = events ]_vars
  /\ [][ pc = "aborted" => FALSE ]_vars
  /\ []((mode = "batch" /\ pc = "aborted" /\ MidJobFailure) =>
          /\ runError.chunk = batchIndex + 1
          /\ LastCall.k = batchIndex + 1
          /\ runError.kind = "status_check" => LastCall = Ev("poll", batchIndex + 1, 0, FALSE)
          /\ runError.kind = "download" =>
               /\ ~LastCall.ok
               /\ CallsOf("download_results", batchIndex + 1) = {Len(events)}
          /\ runError.kind = "result_record" =>
               \A i \in resIdx .. Len(results) : Writes(results[i].custom_id, batchIndex + 1) = 0)

C29_Witness ==
  /\ mode = "batch"
  /\ pc = "aborted"
  /\ runError = [kind |-> "result_record", chunk |-> 1]
  /\ Len(batches) = 2
  /\ Len(results) = 2
  /\ resIdx = 1
  /\ results[2].kind = "ok"
  /\ written = << >>

\* the calls of the captioning API (uploads, job creations, queries)
CaptioningOps == {"upload", "create", "attempt"}

\* C30: no captioning call (upload, job creation, synchronous query) is
\* made unless the user confirmed the cost agreement, none after a declined
\* overwrite question, and a run starts one pipeline only: all its calls
\* belong to the pipeline chosen by the batch question.
C30_NoCallWithoutAgreement ==
  /\ [][ events' # events =>
           /\ answers.costConfirmation
           /\ answers.continueOverwrite
           /\ mode = (IF answers.useBatchProcessing THEN "batch" ELSE "sync")
           /\ \A i \in Len(events) + 1 .. Len(events') :
                /\ events'[i].op \in {"attempt", "delay"} => mode = "sync"
                /\ events'[i].op \in BatchApiOps \cup {"wait"} => mode = "batch" ]_vars
  /\ [][ mode # "none" => mode' = mode ]_vars
  /\ []((~answers.costConfirmation \/ ~answers.continueOverwrite) =>
          /\ mode = "none"
          /\ events = << >>
          /\ written = << >>
          /\ pc \in {"main", "declined", "aborted"})

C30_Witness ==
  /\ pc = "declined"
  /\ answers.continueOverwrite
  /\ answers.useBatchProcessing
  /\ ~answers.costConfirmation
  /\ events = << >>

\* a step of the synchronous path that issues a captioning request
SyncAttemptStep == pc = "sync_attempt" /\ Len(events') > Len(events)

\* the request that a synchronous attempt step adds to the log
SyncQuery == events'[Len(events) + 1]

\* the ways the try block of attemptQueryWithRetry can stop before its end
FailedOutcomes == {"request_throws", "no_choices", "write_throws"}

\* C31: in the synchronous path an attempt is a success only when the response
\* carried choices[0].message and the file write returned; a request that
\* throws, a response without choices and a throwing write all leave no
\* output, and are retried after a delay while the attempt number is below 3
\* and given up with a permanent-failure line at attempt 3. Hence an item the
\* loop has left has an output written by the run iff one of its attempts,
\* numbered at most 3, completed both steps.
C31_SuccessNeedsBothSteps ==
  /\ [][SyncAttemptStep =>
          LET k == syncI + 1
              item == imagePaths[k]
          IN  /\ SyncQuery.op = "attempt" /\ SyncQuery.k = k /\ SyncQuery.a = attempt
              /\ attempt <= SYNC_RETRIES
              /\ tryOutcome' \in AttemptOutcomes
              /\ SyncQuery.ok <=> tryOutcome' = "ok"
              /\ tryOutcome' = "ok" =>
                   /\ written' = Append(written, [id |-> item, chunk |-> 0])
                   /\ errorLog' = errorLog
                   /\ syncI' = k
              /\ tryOutcome' \in FailedOutcomes =>
                   /\ written' = written
                   /\ IF attempt < SYNC_RETRIES
                        THEN /\ pc' = "sync_attempt"
                             /\ syncI' = syncI
                             /\ attempt' = attempt + 1
                             /\ Len(events') = Len(events) + 2
                             /\ NewCall.op = "delay" /\ NewCall.k = k
                             /\ errorLog' = errorLog
                        ELSE /\ syncI' = k
                             /\ Len(events') = Len(events) + 1
                             /\ errorLog' = Append(errorLog, [kind |-> "all_retries_failed", id |-> item])
        ]_vars
  /\ [](\A k \in 1..Len(imagePaths) :
          ItemOver(k) =>
            ((Writes(imagePaths[k], 0) >= 1) <=>
               (\E i \in Attempts(k) : events[i].ok /\ events[i].a <= SYNC_RETRIES)))

\* the first item got its file on its third attempt; the second item's first
\* response had no choices and is being retried
C31_Witness ==
  /\ mode = "sync"
  /\ pc = "sync_attempt"
  /\ syncI = 1
  /\ Cardinality(Attempts(1)) = 3
  /\ Writes(imagePaths[1], 0) = 1
  /\ attempt = 2
  /\ tryOutcome = "no_choices"
  /\ LastCall.op = "delay" /\ LastCall.k = 2 /\ LastCall.a = 2

====
